---- MODULE Spec2Model ----
(***************************************************************************)
(* A state-machine model of el::EventManager (EventManager.hpp): the       *)
(* subscription registry, the reentrancy-aware EventHandlerList, the two   *)
(* deferred-action lists and the publish call.  User code (the main        *)
(* program, the body of a handler while it is being dispatched, the body   *)
(* of a scheduled action while it is being flushed) is a nondeterministic  *)
(* caller of the public API; the call stack is explicit, so user code can  *)
(* re-enter publish, subscribe, unsubscribe, unsubscribeAll and schedule.  *)
(***************************************************************************)
EXTENDS Integers, Sequences, FiniteSets, TLC

(* ------------------------------ bounds --------------------------------- *)
\* receivers (EventReceiver objects) 1..NumReceivers
NumReceivers == 3
\* event types (typeid keys) 1..NumTypes
NumTypes == 2
\* deepest nesting of publish calls
MaxDepth == 2
\* API calls one handler body or one scheduled action may make
MaxBodyCalls == 1
\* cap of a receiver's subscription counter explored
MaxCount == 2
\* cap of the length of m_order (tombstones included)
MaxOrder == 3
\* cap of the handler calls of one dispatch pass
MaxPass == 3
\* scheduled actions of a run
MaxActions == 3
\* distinct callables (member functions, std::function objects) to subscribe with
NumCallables == 2
\* cap of the action calls of one publish call
MaxFlush == 3

\* uint32_t arithmetic of m_subsCount.  A counter is held as its 32-bit pattern read
\* as a signed number, so that 4294967295 (0 - 1 in uint32_t) is -1 here
UIntInc(c) == IF c = 2147483647 THEN -2147483647 - 1 ELSE c + 1

UIntDec(c) == IF c = -2147483647 - 1 THEN 2147483647 ELSE c - 1

\* the receivers, event types and distinct callables of a run and the depth to
\* which its publish calls nest: many receivers on one event type, or one receiver
\* fewer on every event type, or one receiver fewer and several callables to
\* subscribe with, or one receiver fewer, one event type more and no nesting
Universes ==
    {[nr |-> NumReceivers, nt |-> 1, nc |-> 1, depth |-> MaxDepth],
     [nr |-> NumReceivers - 1, nt |-> NumTypes, nc |-> 1, depth |-> MaxDepth],
     [nr |-> NumReceivers - 1, nt |-> 1, nc |-> NumCallables, depth |-> MaxDepth],
     [nr |-> NumReceivers - 1, nt |-> NumTypes + 1, nc |-> 1, depth |-> MaxDepth - 1]}

\* a tombstone in m_order (nullptr)
Null == 0

(* ------------------------------ state ---------------------------------- *)
VARIABLES
    universe,         \* the receivers and event types that exist in this run
    m_subscriptions,  \* typeid -> EventHandlerList, a map that grows on subscribe
    m_subsCount,      \* receiver -> uint32_t, entries erased at zero
    m_urgentActions,  \* UrgentActionList: m_executing, m_actions, m_buffer
    m_eventActions,   \* EventActionList: m_executing, m_actions and m_buffer per typeid
    nextAction,       \* the identity of the next action to be scheduled
    stack,            \* the call stack: publish frames, handler bodies, action bodies
    crashed,          \* the process has died (null call, wild iterator)
    subscribedOrder,  \* history: per type, receivers holding a slot, oldest slot first
    sched,            \* history: per action, its queue and what was flushing at enqueue
    runs,             \* history: per action, how often it was called (2: twice or more)
    flushed           \* history: per queue, the actions enqueued before the entry of a
                      \* publish call that has ended its flush of the queue

registry == <<m_subscriptions, m_subsCount>>

queues == <<m_urgentActions, m_eventActions, nextAction>>

ledger == <<sched, runs, flushed>>

history == <<subscribedOrder, ledger>>

vars == <<universe, registry, queues, stack, crashed, history>>

Receivers == 1..universe.nr
\* the queues of deferred actions: the urgent list, and one list per event type
Urgent == 0

Queues == {Urgent} \cup (1..universe.nt)

Types == 1..universe.nt
\* the callables handed to add / subscribe, told apart by number
Callables == 1..universe.nc

(* --------------------------- map helpers ------------------------------- *)
MapPut(f, k, v) == [x \in (DOMAIN f) \cup {k} |-> IF x = k THEN v ELSE f[x]]

MapErase(f, k) == [x \in (DOMAIN f) \ {k} |-> f[x]]

EmptyMap == [x \in {} |-> 0]

Range(s) == {s[i] : i \in DOMAIN s}

\* the indices of a sequence that hold v
IndicesOf(s, v) == {i \in DOMAIN s : s[i] = v}

\* std::find: the first index holding v, or Len(s)+1 (end) when there is none
FindFirst(s, v) == IF IndicesOf(s, v) = {} THEN Len(s) + 1
                   ELSE CHOOSE i \in IndicesOf(s, v) : \A j \in IndicesOf(s, v) : i <= j

\* std::list::remove / remove_if: drop every element equal to v
ListRemoveValue(s, v) == SelectSeq(s, LAMBDA x : x # v)

(* ------------------------ EventHandlerList ----------------------------- *)
\* a default-constructed EventHandlerList
EmptyList == [m_handlers |-> EmptyMap, m_order |-> <<>>,
              m_executing |-> FALSE, m_needsCleanUp |-> FALSE]

\* add with m_order.push_front in place of push_back
ListAddFront(l, r, c) ==
    IF r \in DOMAIN l.m_handlers THEN l
    ELSE [l EXCEPT !.m_handlers = MapPut(@, r, c), !.m_order = <<r>> \o @]

\* add without the test for a handler the receiver already has
ListAddAgain(l, r, c) ==
    [l EXCEPT !.m_handlers = MapPut(@, r, c), !.m_order = Append(@, r)]

\* add that, during a dispatch, stores the handler and links no node into m_order
ListAddDeferred(l, r, c) ==
    IF r \in DOMAIN l.m_handlers THEN l
    ELSE IF l.m_executing THEN [l EXCEPT !.m_handlers = MapPut(@, r, c)]
    ELSE [l EXCEPT !.m_handlers = MapPut(@, r, c), !.m_order = Append(@, r)]

\* EventHandlerList::add (both overloads): insert only when the receiver has no handler
ListAdd(l, r, c) ==
    IF r \in DOMAIN l.m_handlers THEN l
    ELSE [l EXCEPT !.m_handlers = MapPut(@, r, c), !.m_order = Append(@, r)]

\* a remove that erases the handler and leaves the node of m_order as it is
ListRemoveKeepsNode(l, r) == [l EXCEPT !.m_handlers = MapErase(@, r)]

\* EventHandlerList::remove
ListRemove(l, r) ==
    IF r \notin DOMAIN l.m_handlers THEN l
    ELSE IF l.m_executing
         THEN [l EXCEPT !.m_handlers = MapErase(@, r),
                        !.m_needsCleanUp = TRUE,
                        !.m_order = IF FindFirst(@, r) <= Len(@)
                                    THEN [@ EXCEPT ![FindFirst(@, r)] = Null]
                                    ELSE @]
         ELSE [l EXCEPT !.m_handlers = MapErase(@, r),
                        !.m_order = ListRemoveValue(@, r)]

\* the indices of m_order whose nodes EventHandlerList::remove frees
RemoveErases(l, r) ==
    IF r \in DOMAIN l.m_handlers /\ ~l.m_executing THEN IndicesOf(l.m_order, r) ELSE {}

\* a cleanUp that resets m_needsCleanUp and leaves the tombstones in m_order
ListCleanUpKeeps(l) == [l EXCEPT !.m_needsCleanUp = FALSE]

\* EventHandlerList::cleanUp
ListCleanUp(l) ==
    IF ~l.m_needsCleanUp THEN l
    ELSE [l EXCEPT !.m_needsCleanUp = FALSE, !.m_order = ListRemoveValue(@, Null)]

\* the indices of m_order whose nodes EventHandlerList::cleanUp frees
CleanUpErases(l) == IF l.m_needsCleanUp THEN IndicesOf(l.m_order, Null) ELSE {}

\* the end of EventHandlerList::dispatch: m_executing = false; cleanUp()
ListEndDispatch(l) == ListCleanUp([l EXCEPT !.m_executing = FALSE])

(* --------------------------- the call stack ---------------------------- *)
\* a call of EventManager::publish<EventType>.  pc is the place in publish; it is
\* the list iterator of the loop pc names (as an index into the list); dangling:
\* the node under the iterator was freed; wild: ++ was applied to such an iterator.
\* History of the dispatch pass: log, the receivers whose handler it called; gone,
\* the receivers on which a handler of another receiver called unsubscribeAll;
\* dirty, the subscriptions were changed in any other way; stopped, the length of
\* log when a handler of a publish call nested in the pass set handled on the
\* event of that call (0: none did, or the loop is over).  History of the
\* flushes: born, the actions 1..born-1 were enqueued before the call was entered;
\* ran, the actions it called; barred, the actions enqueued into the queue it is
\* flushing since that flush began; owed, the actions its handlers scheduled, into
\* the urgent list or into the list of its event type
PublishFrame(t) ==
    [kind |-> "publish", tid |-> t, pc |-> "urgent", it |-> 0, handled |-> FALSE,
     dangling |-> FALSE, wild |-> FALSE, r |-> Null, calls |-> 0, log |-> <<>>,
     dirty |-> FALSE, gone |-> {}, born |-> nextAction, ran |-> <<>>, barred |-> {},
     stopped |-> 0, owed |-> {}]

\* the body of the handler of receiver r, called by EventHandler::handle
HandlerFrame(r, t) ==
    [kind |-> "handler", tid |-> t, pc |-> "body", it |-> 0, handled |-> FALSE,
     dangling |-> FALSE, wild |-> FALSE, r |-> r, calls |-> 0, log |-> <<>>,
     dirty |-> FALSE, gone |-> {}]

\* the body of the scheduled action a, called by the loop of an exec
ActionFrame(a, t) ==
    [kind |-> "action", tid |-> t, pc |-> "body", it |-> 0, handled |-> FALSE,
     dangling |-> FALSE, wild |-> FALSE, r |-> a, calls |-> 0, log |-> <<>>,
     dirty |-> FALSE, gone |-> {}]

Top == stack[Len(stack)]

Depth == Cardinality({i \in DOMAIN stack : stack[i].kind = "publish"})

\* the top frame is a publish call at place pc
AtPc(pc) == ~crashed /\ stack # <<>> /\ Top.kind = "publish" /\ Top.pc = pc

\* the top frame is user code of the given kind, called from the loop below it
InBody(kind) == ~crashed /\ stack # <<>> /\ Top.kind = kind

\* the stack without its top frame, and the frame that is then on top
Below == SubSeq(stack, 1, Len(stack) - 1)

Caller == stack[Len(stack) - 1]

\* user code is running: the main program, or a body that has calls left
CanCall ==
    /\ ~crashed
    /\ \/ stack = <<>>
       \/ /\ stack # <<>>
          /\ Top.kind \in {"handler", "action"}
          /\ Top.calls < MaxBodyCalls

\* the stack after the running body has made one more call
Called(stk) ==
    IF stk = <<>> THEN stk
    ELSE [stk EXCEPT ![Len(stk)].calls = @ + 1]

\* the iterators of the loops at place pc after the nodes at the indices erased[t]
\* of the list of type t were freed: an iterator at a freed node dangles, the others
\* keep their node
Reindex(stk, pc, erased) ==
    [i \in DOMAIN stk |->
        LET f == stk[i] IN
        IF f.kind = "publish" /\ f.pc = pc /\ erased[f.tid] # {}
        THEN [f EXCEPT !.it = @ - Cardinality({e \in erased[f.tid] : e < f.it}),
                       !.dangling = @ \/ (f.it \in erased[f.tid])]
        ELSE f]

\* history: every dispatch pass in progress has seen a change of the subscriptions
MarkDirty(stk, changed) ==
    [i \in DOMAIN stk |->
        IF changed /\ stk[i].kind = "publish" /\ stk[i].pc = "loop"
        THEN [stk[i] EXCEPT !.dirty = TRUE] ELSE stk[i]]

\* history: every dispatch pass in progress has seen unsubscribeAll(r), called by
\* the handler of another receiver
MarkGone(stk, r) ==
    [i \in DOMAIN stk |->
        IF stk[i].kind = "publish" /\ stk[i].pc = "loop"
        THEN [stk[i] EXCEPT !.gone = @ \cup {r}] ELSE stk[i]]

\* the running body is the handler of a receiver other than r
InHandlerOfOther(r) == stack # <<>> /\ Top.kind = "handler" /\ Top.r # r

(* ---------------------------- history ---------------------------------- *)
\* the receivers holding a handler slot for type t
Slots(subs, t) == IF t \in DOMAIN subs THEN DOMAIN subs[t].m_handlers ELSE {}

\* a set as a sequence (an action adds at most one slot per type)
RECURSIVE SetToSeq(_)
SetToSeq(S) == IF S = {} THEN <<>>
               ELSE LET x == CHOOSE y \in S : TRUE IN <<x>> \o SetToSeq(S \ {x})

\* subscribedOrder after a step: receivers that lost their slot leave, a receiver
\* that gained one goes last, nobody else moves
NextOrder(g, subs) ==
    [t \in Types |->
        LET kept == SelectSeq(g[t], LAMBDA x : x \in Slots(subs, t))
        IN kept \o SetToSeq(Slots(subs, t) \ Range(kept))]

(* ------------------------------ Init ----------------------------------- *)
Init ==
    /\ universe \in Universes
    /\ m_subscriptions = EmptyMap
    /\ m_subsCount = EmptyMap
    /\ m_urgentActions = [m_executing |-> FALSE, m_actions |-> <<>>, m_buffer |-> <<>>]
    /\ m_eventActions = [m_executing |-> FALSE, m_actions |-> EmptyMap, m_buffer |-> EmptyMap]
    /\ nextAction = 1
    /\ stack = <<>>
    /\ crashed = FALSE
    /\ subscribedOrder = [t \in Types |-> <<>>]
    /\ sched = <<>>
    /\ runs = <<>>
    /\ flushed = [q \in Queues |-> 1]

(* ---------------------------- EventManager ----------------------------- *)
Count(r) == IF r \in DOMAIN m_subsCount THEN m_subsCount[r] ELSE 0

\* m_subscriptions[typeid(EventType)]: operator[] default-constructs a missing list
ListOf(t) == IF t \in DOMAIN m_subscriptions THEN m_subscriptions[t] ELSE EmptyList

\* EventManager::subscribe (both overloads)
Subscribe(r, t, c) ==
    /\ CanCall
    /\ Count(r) < MaxCount
    /\ Len(ListOf(t).m_order) < MaxOrder
    /\ m_subscriptions' = MapPut(m_subscriptions, t, ListAdd(ListOf(t), r, c))
    /\ m_subsCount' = MapPut(m_subsCount, r, UIntInc(Count(r)))
    /\ stack' = MarkDirty(Called(stack), m_subscriptions' # m_subscriptions)
    /\ subscribedOrder' = NextOrder(subscribedOrder, m_subscriptions')
    /\ UNCHANGED <<universe, queues, crashed, ledger>>

\* EventManager::unsubscribe<EventType>
Unsubscribe(r, t) ==
    /\ CanCall
    /\ IF r \notin DOMAIN m_subsCount
       THEN UNCHANGED registry /\ stack' = Called(stack)
       ELSE IF t \in DOMAIN m_subscriptions
            THEN /\ m_subscriptions' =
                        [m_subscriptions EXCEPT ![t] = ListRemove(@, r)]
                 /\ m_subsCount' =
                        IF UIntDec(m_subsCount[r]) = 0
                        THEN MapErase(m_subsCount, r)
                        ELSE [m_subsCount EXCEPT ![r] = UIntDec(@)]
                 /\ stack' = MarkDirty(
                        Reindex(Called(stack), "loop",
                            [u \in Types |-> IF u = t
                                             THEN RemoveErases(m_subscriptions[t], r)
                                             ELSE {}]),
                        m_subscriptions' # m_subscriptions)
            ELSE UNCHANGED registry /\ stack' = Called(stack)
    /\ subscribedOrder' = NextOrder(subscribedOrder, m_subscriptions')
    /\ UNCHANGED <<universe, queues, crashed, ledger>>

\* EventManager::unsubscribeAll, the whole body of EventReceiver::~EventReceiver
UnsubscribeAll(r) ==
    /\ CanCall
    /\ IF r \notin DOMAIN m_subsCount \/ Count(r) = 0
       THEN /\ UNCHANGED registry
            /\ stack' = IF InHandlerOfOther(r) THEN MarkGone(Called(stack), r)
                        ELSE Called(stack)
       ELSE /\ m_subscriptions' =
                   [t \in DOMAIN m_subscriptions |-> ListRemove(m_subscriptions[t], r)]
            /\ m_subsCount' = MapErase(m_subsCount, r)
            /\ stack' =
                   LET stk == Reindex(Called(stack), "loop",
                                  [u \in Types |-> IF u \in DOMAIN m_subscriptions
                                                   THEN RemoveErases(m_subscriptions[u], r)
                                                   ELSE {}])
                   IN IF InHandlerOfOther(r) THEN MarkGone(stk, r)
                      ELSE MarkDirty(stk, m_subscriptions' # m_subscriptions)
    /\ subscribedOrder' = NextOrder(subscribedOrder, m_subscriptions')
    /\ UNCHANGED <<universe, queues, crashed, ledger>>

(* ------------------------- deferred actions --------------------------- *)
\* the publish calls that are in the loop of the exec of queue q
Flushing(q) ==
    {i \in DOMAIN stack :
        /\ stack[i].kind = "publish"
        /\ \/ q = Urgent /\ stack[i].pc = "urgentLoop"
           \/ q # Urgent /\ stack[i].pc = "eventLoop" /\ stack[i].tid = q}

\* what is being flushed when an action is enqueued into queue q
Context(q) ==
    IF Flushing(q) # {} THEN "own"
    ELSE IF \E u \in Queues : Flushing(u) # {} THEN "other"
    ELSE "none"

\* history: action a was enqueued into queue q
Bar(stk, q, a) ==
    [i \in DOMAIN stk |->
        IF i \in Flushing(q) THEN [stk[i] EXCEPT !.barred = @ \cup {a}] ELSE stk[i]]

\* history: action a was enqueued into queue q by the body on top of stk; if that is
\* a handler, the publish call that called it owes a when q is the urgent list or
\* the list of the event type of the call
Owe(stk, q, a) ==
    IF stk # <<>> /\ stk[Len(stk)].kind = "handler" /\ q \in {Urgent, stk[Len(stk)].tid}
    THEN [stk EXCEPT ![Len(stk) - 1].owed = @ \cup {a}]
    ELSE stk

Enqueued(q) ==
    /\ sched' = Append(sched, [q |-> q, ctx |-> Context(q)])
    /\ runs' = Append(runs, 0)
    /\ UNCHANGED <<subscribedOrder, flushed>>

\* history: action a is called
Ran(a) ==
    /\ runs' = [runs EXCEPT ![a] = IF @ = 2 THEN 2 ELSE @ + 1]
    /\ UNCHANGED <<subscribedOrder, sched, flushed>>

\* history: the publish call of frame f has ended its flush of queue q
EndFlush(q, f) ==
    /\ flushed' = [flushed EXCEPT ![q] = IF f.born > @ THEN f.born ELSE @]
    /\ UNCHANGED <<subscribedOrder, sched, runs>>

\* EventManager::schedule(Action&&): UrgentActionList::add
Schedule ==
    /\ CanCall
    /\ nextAction <= MaxActions
    /\ m_urgentActions' =
           IF m_urgentActions.m_executing
           THEN [m_urgentActions EXCEPT !.m_buffer = Append(@, nextAction)]
           ELSE [m_urgentActions EXCEPT !.m_actions = Append(@, nextAction)]
    /\ nextAction' = nextAction + 1
    /\ stack' = Owe(Bar(Called(stack), Urgent, nextAction), Urgent, nextAction)
    /\ Enqueued(Urgent)
    /\ UNCHANGED <<universe, registry, m_eventActions, crashed>>

\* map[key].push_back(a): operator[] default-constructs a missing list
MapPushBack(m, k, a) == MapPut(m, k, Append(IF k \in DOMAIN m THEN m[k] ELSE <<>>, a))

\* EventManager::schedule<EventType>(Action&&): EventActionList::add
ScheduleEvent(t) ==
    /\ CanCall
    /\ nextAction <= MaxActions
    /\ m_eventActions' =
           IF m_eventActions.m_executing
           THEN [m_eventActions EXCEPT !.m_buffer = MapPushBack(@, t, nextAction)]
           ELSE [m_eventActions EXCEPT !.m_actions = MapPushBack(@, t, nextAction)]
    /\ nextAction' = nextAction + 1
    /\ stack' = Owe(Bar(Called(stack), t, nextAction), t, nextAction)
    /\ Enqueued(t)
    /\ UNCHANGED <<universe, registry, m_urgentActions, crashed>>

\* EventManager::publish is entered
Publish(t) ==
    /\ CanCall
    /\ Depth < universe.depth
    /\ stack' = Append(Called(stack), PublishFrame(t))
    /\ UNCHANGED <<universe, registry, queues, crashed, history>>

(* ------------------- UrgentActionList::exec ---------------------------- *)
\* the whole list, for the loops over m_urgentActions.m_actions
AllTypes(E) == [t \in Types |-> E]

\* publish: m_urgentActions.exec() up to its loop; an empty list ends the call
UrgentExec ==
    /\ AtPc("urgent")
    /\ LET merged == m_urgentActions.m_actions \o m_urgentActions.m_buffer IN
       IF merged = <<>>
       THEN /\ m_urgentActions' = [m_urgentActions EXCEPT !.m_executing = FALSE]
            /\ stack' = [stack EXCEPT ![Len(stack)].pc = "lookup"]
            /\ EndFlush(Urgent, Top)
       ELSE /\ m_urgentActions' =
                   [m_executing |-> TRUE, m_actions |-> merged, m_buffer |-> <<>>]
            /\ stack' = [stack EXCEPT ![Len(stack)].pc = "urgentLoop",
                                      ![Len(stack)].it = 1]
            /\ UNCHANGED history
    /\ UNCHANGED <<universe, registry, m_eventActions, nextAction, crashed>>

\* one iteration of the loop of UrgentActionList::exec up to the call of the action;
\* after the last one m_actions.clear() and m_executing = false
UrgentStep ==
    /\ AtPc("urgentLoop")
    /\ IF Top.it > Len(m_urgentActions.m_actions)
       THEN /\ m_urgentActions' = [m_urgentActions EXCEPT !.m_actions = <<>>,
                                                          !.m_executing = FALSE]
            /\ stack' = Append(
                   Reindex(Below, "urgentLoop",
                           AllTypes(DOMAIN m_urgentActions.m_actions)),
                   [Top EXCEPT !.pc = "lookup", !.it = 0, !.barred = {}])
            /\ EndFlush(Urgent, Top)
       ELSE /\ Len(Top.ran) < MaxFlush
            /\ stack' = Append(
                   [stack EXCEPT ![Len(stack)].ran =
                                     Append(@, m_urgentActions.m_actions[Top.it])],
                   ActionFrame(m_urgentActions.m_actions[Top.it], Top.tid))
            /\ Ran(m_urgentActions.m_actions[Top.it])
            /\ UNCHANGED m_urgentActions
    /\ UNCHANGED <<universe, registry, m_eventActions, nextAction, crashed>>

(* ------------------- EventHandlerList::dispatch ------------------------ *)
\* a lookup with m_subscriptions[tid], which inserts an empty list for a new key
LookupInserts(subs, t) == MapPut(subs, t, EmptyList)

\* m_subscriptions.find(tid) for a type without list: the map stays as it is
LookupMiss(subs, t) == subs

\* publish: m_subscriptions.find(tid), and the start of EventHandlerList::dispatch
DispatchBegin ==
    /\ AtPc("lookup")
    /\ IF Top.tid \in DOMAIN m_subscriptions
       THEN /\ m_subscriptions' = [m_subscriptions EXCEPT ![Top.tid].m_executing = TRUE]
            /\ stack' = [stack EXCEPT ![Len(stack)].pc = "loop", ![Len(stack)].it = 1]
       ELSE /\ stack' = [stack EXCEPT ![Len(stack)].pc = "event"]
            /\ m_subscriptions' = LookupMiss(m_subscriptions, Top.tid)
    /\ UNCHANGED <<universe, m_subsCount, queues, crashed, history>>

\* the stack after the loop of dispatch is left by the top frame of stk: cleanUp
\* frees the tombstones under the iterators of the passes below
EndDispatchStack(stk) ==
    LET t == stk[Len(stk)].tid
        erased == [u \in Types |-> IF u = t THEN CleanUpErases(m_subscriptions[t]) ELSE {}]
    IN Append(Reindex(SubSeq(stk, 1, Len(stk) - 1), "loop", erased),
              [stk[Len(stk)] EXCEPT !.pc = "event", !.it = 0, !.dangling = FALSE,
                                     !.stopped = 0])

\* a loop of dispatch without the break
StopsNever(handled) == FALSE

\* whether the loop of dispatch breaks after a handler returned: if (e.handled) break
StopsAfter(handled) == handled

\* one iteration of the loop of EventHandlerList::dispatch up to the handler call;
\* after the last one m_executing = false and cleanUp()
DispatchStep ==
    /\ AtPc("loop")
    /\ LET l == m_subscriptions[Top.tid] IN
       IF Top.it > Len(l.m_order)
       THEN /\ m_subscriptions' = [m_subscriptions EXCEPT ![Top.tid] = ListEndDispatch(@)]
            /\ stack' = EndDispatchStack(stack)
            /\ UNCHANGED crashed
       ELSE IF l.m_order[Top.it] = Null
       THEN /\ stack' = [stack EXCEPT ![Len(stack)].it = @ + 1]
            /\ UNCHANGED <<m_subscriptions, crashed>>
       ELSE IF l.m_order[Top.it] \notin DOMAIN l.m_handlers
       THEN \* m_handlers[handler] inserts a null unique_ptr and calls through it
            /\ crashed' = TRUE
            /\ UNCHANGED <<m_subscriptions, stack>>
       ELSE /\ Len(Top.log) < MaxPass
            /\ stack' = Append(
                   [stack EXCEPT ![Len(stack)].log = Append(@, l.m_order[Top.it])],
                   HandlerFrame(l.m_order[Top.it], Top.tid))
            /\ UNCHANGED <<m_subscriptions, crashed>>
    /\ UNCHANGED <<universe, m_subsCount, queues, history>>

\* a handled flag that all the events in dispatch share
SetsHandledAll(stk) ==
    [i \in DOMAIN stk |->
        IF stk[i].kind = "publish" THEN [stk[i] EXCEPT !.handled = TRUE] ELSE stk[i]]

\* e.handled = true in the body on top of stk: e is the event of the publish call
\* that called the handler
SetsHandled(stk) == [stk EXCEPT ![Len(stk) - 1].handled = TRUE]

\* history: the passes that enclose the publish call of the running handler have
\* seen a nested publish call stopped
MarkStopped(stk) ==
    [i \in DOMAIN stk |->
        IF i < Len(stk) - 1 /\ stk[i].kind = "publish" /\ stk[i].pc = "loop"
        THEN [stk[i] EXCEPT !.stopped = Len(stk[i].log)] ELSE stk[i]]

\* a handler body sets e.handled = true
SetHandled ==
    /\ InBody("handler")
    /\ ~Caller.handled
    /\ stack' = MarkStopped(SetsHandled(stack))
    /\ UNCHANGED <<universe, registry, queues, crashed, history>>

\* a handler returns to the loop of dispatch: if (e.handled) break; else ++iterator
HandlerReturn ==
    /\ InBody("handler")
    /\ StopsAfter(Caller.handled) \/ ~Caller.dangling
    /\ IF StopsAfter(Caller.handled)
       THEN /\ m_subscriptions' =
                   [m_subscriptions EXCEPT ![Caller.tid] = ListEndDispatch(@)]
            /\ stack' = EndDispatchStack(Below)
       ELSE /\ stack' = [Below EXCEPT ![Len(Below)].it = @ + 1]
            /\ UNCHANGED m_subscriptions
    /\ UNCHANGED <<universe, m_subsCount, queues, crashed, history>>

\* the list a loop of publish iterates over
LoopList(f) ==
    IF f.pc = "loop" THEN m_subscriptions[f.tid].m_order
    ELSE IF f.pc = "urgentLoop" THEN m_urgentActions.m_actions
    ELSE IF f.tid \in DOMAIN m_eventActions.m_actions
         THEN m_eventActions.m_actions[f.tid] ELSE <<>>

\* the stack after ++iterator has read a freed list node: the process dies (j = 0),
\* or the loop goes on at any node of the list or at its end
WildStack(j) ==
    IF j = 0 THEN [stack EXCEPT ![Len(stack) - 1].wild = TRUE]
    ELSE [Below EXCEPT ![Len(Below)].it = j, ![Len(Below)].dangling = FALSE,
                       ![Len(Below)].wild = TRUE]

\* a handler returns and the iterator of dispatch is at a freed node
HandlerReturnDangling(j) ==
    /\ InBody("handler")
    /\ ~StopsAfter(Caller.handled)
    /\ Caller.dangling
    /\ j <= Len(LoopList(Caller)) + 1
    /\ crashed' = (j = 0)
    /\ stack' = WildStack(j)
    /\ UNCHANGED <<universe, registry, queues, history>>

(* -------------------- EventActionList::exec ---------------------------- *)
\* std::unordered_map::merge: only the keys the target lacks are moved over
MapMerge(target, source) ==
    [k \in (DOMAIN target) \cup (DOMAIN source) |->
        IF k \in DOMAIN target THEN target[k] ELSE source[k]]

\* m_actions after the merge at the start of EventActionList::exec
MergedActions(q) ==
    IF DOMAIN q.m_buffer # {} THEN MapMerge(q.m_actions, q.m_buffer) ELSE q.m_actions

\* publish: m_eventActions.exec(tid) up to its loop; with no list or an empty one
\* exec ends and publish returns to its caller
EventExec ==
    /\ AtPc("event")
    /\ LET merged == MergedActions(m_eventActions) IN
       IF Top.tid \in DOMAIN merged /\ merged[Top.tid] # <<>>
       THEN /\ m_eventActions' =
                   [m_executing |-> TRUE, m_actions |-> merged, m_buffer |-> EmptyMap]
            /\ stack' = [stack EXCEPT ![Len(stack)].pc = "eventLoop",
                                      ![Len(stack)].it = 1]
            /\ UNCHANGED history
       ELSE /\ m_eventActions' =
                   [m_executing |-> FALSE, m_actions |-> merged, m_buffer |-> EmptyMap]
            /\ stack' = Below
            /\ EndFlush(Top.tid, Top)
    /\ UNCHANGED <<universe, registry, m_urgentActions, nextAction, crashed>>

\* one iteration of the loop of EventActionList::exec up to the call of the action;
\* after the last one actions.clear() and m_executing = false, and publish returns
EventStep ==
    /\ AtPc("eventLoop")
    /\ LET actions == m_eventActions.m_actions[Top.tid] IN
       IF Top.it > Len(actions)
       THEN /\ m_eventActions' = [m_eventActions EXCEPT !.m_actions[Top.tid] = <<>>,
                                                        !.m_executing = FALSE]
            /\ stack' = Reindex(Below, "eventLoop",
                           [u \in Types |-> IF u = Top.tid THEN DOMAIN actions ELSE {}])
            /\ EndFlush(Top.tid, Top)
       ELSE /\ Len(Top.ran) < MaxFlush
            /\ stack' = Append(
                   [stack EXCEPT ![Len(stack)].ran = Append(@, actions[Top.it])],
                   ActionFrame(actions[Top.it], Top.tid))
            /\ Ran(actions[Top.it])
            /\ UNCHANGED m_eventActions
    /\ UNCHANGED <<universe, registry, m_urgentActions, nextAction, crashed>>

\* a scheduled action returns to the loop of its exec: ++iterator
ActionReturn ==
    /\ InBody("action")
    /\ ~Caller.dangling
    /\ stack' = [Below EXCEPT ![Len(Below)].it = @ + 1]
    /\ UNCHANGED <<universe, registry, queues, crashed, history>>

\* a scheduled action returns and the iterator of its exec is at a freed node
ActionReturnDangling(j) ==
    /\ InBody("action")
    /\ Caller.dangling
    /\ j <= Len(LoopList(Caller)) + 1
    /\ crashed' = (j = 0)
    /\ stack' = WildStack(j)
    /\ UNCHANGED <<universe, registry, queues, history>>

(* --------------------------- specifications ---------------------------- *)
\* the registry and dispatch: no action is ever scheduled, both flushes are empty
Next ==
    \/ \E r \in Receivers, t \in Types, c \in Callables : Subscribe(r, t, c)
    \/ \E r \in Receivers, t \in Types : Unsubscribe(r, t)
    \/ \E r \in Receivers : UnsubscribeAll(r)
    \/ \E t \in Types : Publish(t)
    \/ UrgentExec
    \/ DispatchBegin
    \/ DispatchStep
    \/ SetHandled
    \/ HandlerReturn
    \/ \E j \in 0..(MaxOrder + 1) : HandlerReturnDangling(j)
    \/ EventExec

Spec == Init /\ [][Next]_vars

\* the deferred actions: one receiver, every event type, actions scheduled by the
\* main program, by handlers and by actions
QueueUniverses ==
    {[nr |-> 1, nt |-> NumTypes, nc |-> 1, depth |-> MaxDepth]}

InitQueues ==
    /\ universe \in QueueUniverses
    /\ m_subscriptions = EmptyMap
    /\ m_subsCount = EmptyMap
    /\ m_urgentActions = [m_executing |-> FALSE, m_actions |-> <<>>, m_buffer |-> <<>>]
    /\ m_eventActions = [m_executing |-> FALSE, m_actions |-> EmptyMap, m_buffer |-> EmptyMap]
    /\ nextAction = 1
    /\ stack = <<>>
    /\ crashed = FALSE
    /\ subscribedOrder = [t \in Types |-> <<>>]
    /\ sched = <<>>
    /\ runs = <<>>
    /\ flushed = [q \in Queues |-> 1]

NextQueues ==
    \/ \E r \in Receivers, t \in Types, c \in Callables : Subscribe(r, t, c)
    \/ Schedule
    \/ \E t \in Types : ScheduleEvent(t)
    \/ \E t \in Types : Publish(t)
    \/ UrgentExec
    \/ UrgentStep
    \/ DispatchBegin
    \/ DispatchStep
    \/ SetHandled
    \/ HandlerReturn
    \/ EventExec
    \/ EventStep
    \/ ActionReturn
    \/ \E j \in 0..(MaxActions + 1) : ActionReturnDangling(j)

SpecQueues == InitQueues /\ [][NextQueues]_vars

(* ---------------- the counters at the width of uint32_t ---------------- *)
\* c after 2^31 - 1 increments in uint32_t, on the signed bit patterns
UIntAddMax(c) == IF c > 0 THEN (c - 1) + (-2147483647 - 1) ELSE c + 2147483647

\* the main program calls subscribe<T>(r, c) 2^31 - 1 times in a row for a receiver
\* that holds a slot for T: every add finds the handler and leaves the list as it
\* is, every call increments the counter
SubscribeRepeatedly(r, t, c) ==
    /\ ~crashed
    /\ stack = <<>>
    /\ r \in Slots(m_subscriptions, t)
    /\ m_subsCount' = MapPut(m_subsCount, r, UIntAddMax(Count(r)))
    /\ UNCHANGED <<universe, m_subscriptions, queues, stack, crashed, history>>

\* the counter values explored: those within MaxCount of 0, of 2^31 - 1 and of 2^31
InWindow(c) ==
    \/ c >= -MaxCount /\ c <= MaxCount
    \/ c >= 2147483647 - MaxCount
    \/ c <= (-2147483647 - 1) + MaxCount

\* two receivers, every event type, and no publish: the main program subscribes
\* and unsubscribes
CounterUniverses == {[nr |-> NumReceivers - 1, nt |-> NumTypes, nc |-> 1, depth |-> 0]}

InitCounter ==
    /\ universe \in CounterUniverses
    /\ m_subscriptions = EmptyMap
    /\ m_subsCount = EmptyMap
    /\ m_urgentActions = [m_executing |-> FALSE, m_actions |-> <<>>, m_buffer |-> <<>>]
    /\ m_eventActions = [m_executing |-> FALSE, m_actions |-> EmptyMap, m_buffer |-> EmptyMap]
    /\ nextAction = 1
    /\ stack = <<>>
    /\ crashed = FALSE
    /\ subscribedOrder = [t \in Types |-> <<>>]
    /\ sched = <<>>
    /\ runs = <<>>
    /\ flushed = [q \in Queues |-> 1]

NextCounter ==
    \/ \E r \in Receivers, t \in Types, c \in Callables :
          InWindow(Count(r)) /\ Subscribe(r, t, c)
    \/ \E r \in Receivers, t \in Types :
          InWindow(UIntDec(Count(r))) /\ Unsubscribe(r, t)
    \/ \E r \in Receivers : UnsubscribeAll(r)
    \/ \E r \in Receivers, t \in Types, c \in Callables :
          InWindow(UIntAddMax(Count(r))) /\ SubscribeRepeatedly(r, t, c)

SpecCounter == InitCounter /\ [][NextCounter]_vars


(* ------------------------- checked properties -------------------------- *)

IsPrefix(s, t) == Len(s) <= Len(t) /\ SubSeq(t, 1, Len(s)) = s

Occurrences(s, v) == Cardinality(IndicesOf(s, v))

\* the calls of publish in progress, as positions of the stack
Passes == {i \in DOMAIN stack : stack[i].kind = "publish"}

\* a pass during which no subscription changed
CleanPasses == {i \in Passes : ~stack[i].dirty /\ stack[i].gone = {}}

\* a pass whose dispatch loop is over
Dispatched(i) == stack[i].pc = "event"

\* C1: a publish of T during which no subscription changes calls the handlers of
\* the receivers subscribed to T in the order of their latest effective
\* subscribe: while the loop runs the calls made are a prefix of that order, and
\* a loop that ends without the event being handled has made exactly those calls
C1_DispatchOrder ==
    \A i \in CleanPasses :
        /\ IsPrefix(stack[i].log, subscribedOrder[stack[i].tid])
        /\ (Dispatched(i) /\ ~stack[i].handled)
              => stack[i].log = subscribedOrder[stack[i].tid]

\* C1 happens: after unsubscribe and a new subscribe of receiver 1, a finished
\* pass has called 2, 3 and then 1
C1_Witness ==
    \E i \in CleanPasses :
        /\ Dispatched(i) /\ ~stack[i].handled
        /\ stack[i].log = <<2, 3, 1>>

\* C2: once a handler has set handled, dispatch calls no further handler of
\* that publish: the handler that set it is the last one called, and if no
\* subscription changed during the pass the handlers before it were called once
\* each, in order
C2_ShortCircuit ==
    \A i \in Passes :
        stack[i].handled =>
            /\ stack[i].log # <<>>
            /\ stack[i].pc = "loop" =>
                  /\ i < Len(stack)
                  /\ stack[i + 1].kind = "handler"
                  /\ stack[i + 1].r = stack[i].log[Len(stack[i].log)]
            /\ i \in CleanPasses =>
                  IsPrefix(stack[i].log, subscribedOrder[stack[i].tid])

\* C2 happens: of three subscribed receivers the second set handled, and the
\* pass ended without calling the third
C2_Witness ==
    \E i \in CleanPasses :
        /\ Dispatched(i) /\ stack[i].handled
        /\ stack[i].log = <<1, 2>>
        /\ subscribedOrder[stack[i].tid] = <<1, 2, 3>>

\* C3: subscribe of a receiver that already has a slot for the type leaves the
\* handler list as it is (first callable, same position); a receiver is never
\* twice in the order of a list; a pass during which no subscription changes
\* calls it once
C3_SubscribeLeavesList ==
    \A r \in Receivers, t \in Types, c \in Callables :
        (Subscribe(r, t, c) /\ r \in Slots(m_subscriptions, t))
            => m_subscriptions'[t] = m_subscriptions[t]

C3_OncePerReceiver ==
    /\ \A t \in DOMAIN m_subscriptions, r \in Receivers :
          Occurrences(m_subscriptions[t].m_order, r) =
              IF r \in DOMAIN m_subscriptions[t].m_handlers THEN 1 ELSE 0
    /\ \A i \in CleanPasses :
          (Dispatched(i) /\ ~stack[i].handled) =>
              \A r \in Slots(m_subscriptions, stack[i].tid) :
                  Occurrences(stack[i].log, r) = 1

C3_IdempotentSubscribe == [][C3_SubscribeLeavesList]_vars /\ []C3_OncePerReceiver

\* C3 happens: receiver 1 subscribed once more with another callable, after 2;
\* its slot holds the first callable, and a pass called 1 and then 2
C3_Witness ==
    /\ universe.nc = NumCallables
    /\ 1 \in DOMAIN m_subsCount /\ m_subsCount[1] = 2
    /\ m_subscriptions[1].m_handlers[1] = 1
    /\ \E i \in CleanPasses :
          /\ Dispatched(i) /\ ~stack[i].handled
          /\ stack[i].log = <<1, 2>>


\* the receivers of the list of type t in list order, tombstones left out
LiveOrder(subs, t) ==
    IF t \in DOMAIN subs THEN SelectSeq(subs[t].m_order, LAMBDA x : x # Null) ELSE <<>>

\* the callables of the list of type t, by receiver
Handlers(subs, t) == IF t \in DOMAIN subs THEN subs[t].m_handlers ELSE EmptyMap

\* C4: when unsubscribeAll(r) returns (the destructor of an EventReceiver calls
\* it), no handler list of any event type holds a slot for r, whatever subscribe
\* and unsubscribe calls came before; with no slot, no later publish calls r
C4_FullCleanup ==
    [][\A r \in Receivers :
          UnsubscribeAll(r) => \A t \in Types : r \notin Slots(m_subscriptions', t)]_vars

\* C5: the subscription counter of a receiver (no entry counts as 0) is the
\* number of event types for which the receiver holds a handler slot
C5_CounterAccuracy ==
    \A r \in Receivers :
        Count(r) = Cardinality({t \in Types : r \in Slots(m_subscriptions, t)})

\* C6: unsubscribe<T>(r) of a receiver without a slot for T changes no handler
\* list and no subscription counter, the counter of r included
C6_UnsubscribeNoOp ==
    [][\A r \in Receivers, t \in Types :
          (Unsubscribe(r, t) /\ r \notin Slots(m_subscriptions, t))
              => UNCHANGED <<m_subscriptions, m_subsCount>>]_vars

\* C7: unsubscribe<T>(r) of a receiver with a slot for T removes that slot and
\* nothing else: r keeps its slots for other types, the other receivers keep
\* their slots for T, with their callables and in their order
C7_UnsubscribeOneSlot ==
    [][\A r \in Receivers, t \in Types :
          (Unsubscribe(r, t) /\ r \in Slots(m_subscriptions, t)) =>
              /\ r \notin Slots(m_subscriptions', t)
              /\ Slots(m_subscriptions', t) = Slots(m_subscriptions, t) \ {r}
              /\ \A x \in Slots(m_subscriptions', t) :
                    Handlers(m_subscriptions', t)[x] = Handlers(m_subscriptions, t)[x]
              /\ LiveOrder(m_subscriptions', t) =
                    SelectSeq(LiveOrder(m_subscriptions, t), LAMBDA x : x # r)
              /\ \A u \in Types \ {t} :
                    /\ Handlers(m_subscriptions', u) = Handlers(m_subscriptions, u)
                    /\ LiveOrder(m_subscriptions', u) = LiveOrder(m_subscriptions, u)]_vars

\* C8: when the handler of r, called by a dispatch of T, calls unsubscribe<T>(r),
\* the pass goes on safely (the iterator of its loop stays valid) and r has no
\* slot for T any more, so that neither the rest of the pass nor a later publish
\* of T calls r
C8_SelfUnsubscribe ==
    [][\A r \in Receivers, t \in Types :
          (Unsubscribe(r, t) /\ InBody("handler") /\ Top.r = r /\ Top.tid = t) =>
              /\ r \notin Slots(m_subscriptions', t)
              /\ ~stack'[Len(stack) - 1].dangling]_vars


\* the event types for which receiver r holds a handler slot
TypesOf(subs, r) == {t \in Types : r \in Slots(subs, t)}

\* C9: in a dispatch pass during which handlers called unsubscribeAll on
\* receivers other than their own, and nothing else changed the subscriptions:
\* those receivers have no slot in any list, the loop stays well defined, and a
\* pass that ends without the event being handled has called every other
\* subscribed receiver once, in subscription order
C9_UnsubscribeAllOther ==
    \A i \in Passes :
        LET f == stack[i] IN
        (f.pc \in {"loop", "event"} /\ f.gone # {} /\ ~f.dirty) =>
            /\ ~f.wild
            /\ \A x \in f.gone : TypesOf(m_subscriptions, x) = {}
            /\ (Dispatched(i) /\ ~f.handled) =>
                  /\ SelectSeq(f.log, LAMBDA x : x \notin f.gone)
                        = subscribedOrder[f.tid]
                  /\ \A r \in Receivers : Occurrences(f.log, r) <= 1

\* the step is the call of the handler of a receiver by a dispatch loop
IsInvocation ==
    /\ Len(stack') = Len(stack) + 1
    /\ stack'[Len(stack')].kind = "handler"

\* C10: dispatch calls a handler only for a receiver that holds a slot in the
\* list; and when the handler of another receiver, in a dispatch of T, destroys
\* a receiver subscribed to T and to other event types, the receiver is left
\* without a slot in any list, so that neither the rest of the pass nor a later
\* publish calls it
C10_NoSlotNoCall ==
    [][/\ IsInvocation =>
            stack'[Len(stack')].r \in Slots(m_subscriptions, stack'[Len(stack')].tid)
       /\ \A x \in Receivers :
            (/\ UnsubscribeAll(x)
             /\ InHandlerOfOther(x)
             /\ Top.tid \in TypesOf(m_subscriptions, x)
             /\ Cardinality(TypesOf(m_subscriptions, x)) >= 2)
                => TypesOf(m_subscriptions', x) = {}]_vars


(* --------------------- checked: deferred actions ----------------------- *)
\* the actions enqueued so far
Actions == DOMAIN sched

\* the actions of queue q that were enqueued while the given things were flushing
EnqueuedIn(q, ctxs) == {a \in Actions : sched[a].q = q /\ sched[a].ctx \in ctxs}

\* the publish call of frame i is past the flush of the urgent list
PastUrgent(i) == stack[i].pc \notin {"urgent", "urgentLoop"}

\* C11: an urgent action scheduled while nothing is being flushed is called once
\* and no more, by the first publish call entered after it was scheduled and
\* before that call gets to its handlers: it has been called when such a call is
\* past its flush of the urgent list
C11_UrgentOnce ==
    \A a \in EnqueuedIn(Urgent, {"none"}) :
        /\ runs[a] <= 1
        /\ a < flushed[Urgent] => runs[a] = 1
        /\ \A i \in Passes :
              /\ (a < stack[i].born /\ PastUrgent(i)) => runs[a] = 1
              /\ (a \in Range(stack[i].ran) /\ stack[i].pc = "urgentLoop")
                    => stack[i].log = <<>>

\* C12: an event action scheduled for T while nothing is being flushed is called
\* once and no more, by a publish of T and after the dispatch of that publish:
\* it has been called when a publish of T entered after it was scheduled has
\* returned, and a publish of another type never calls it
C12_EventOnce ==
    \A t \in Types : \A a \in EnqueuedIn(t, {"none"}) :
        /\ runs[a] <= 1
        /\ a < flushed[t] => runs[a] = 1
        /\ \A i \in Passes :
              a \in Range(stack[i].ran) =>
                  stack[i].tid = t /\ stack[i].pc = "eventLoop"


\* the step is the call of a scheduled action by the loop of an exec
IsActionCall ==
    /\ Len(stack') = Len(stack) + 1
    /\ stack'[Len(stack')].kind = "action"

\* C13: an action enqueued while its own queue is being flushed is not called
\* as long as that flush goes on, whoever calls it and also after an action of
\* the flush has published and that publish has returned
C13_NotInSameFlush ==
    [][IsActionCall =>
          \A i \in Passes : stack'[Len(stack')].r \notin stack[i].barred]_vars


\* C14: no deferred action is lost: an action enqueued during a flush has been
\* called when a publish call (for an event action: of its type) that was
\* entered after the enqueue has ended its flush of the queue
C14_NoActionLost ==
    \A q \in Queues : \A a \in EnqueuedIn(q, {"own", "other"}) :
        a < flushed[q] => runs[a] >= 1


\* the publish call of frame i is in the loop of one of its two flushes
InFlush(i) == stack[i].pc \in {"urgentLoop", "eventLoop"}

\* C15: a scheduled action is called at most once per enqueue, and the loop of a
\* flush keeps a valid iterator, also when the body of an action calls publish
C15_AtMostOnce ==
    /\ \A a \in Actions : runs[a] <= 1
    /\ \A i \in Passes : InFlush(i) => ~stack[i].dangling /\ ~stack[i].wild

\* the step is the return of a publish call
IsPublishReturn ==
    /\ stack # <<>>
    /\ Top.kind = "publish"
    /\ Len(stack') = Len(stack) - 1

\* C16: when a publish of T whose dispatch was cut short by handled returns,
\* every event action that was enqueued for T before the publish was entered has
\* been called
C16_HandledKeepsActions ==
    [][(IsPublishReturn /\ Top.handled) =>
          \A a \in Actions :
              (sched[a].q = Top.tid /\ a < Top.born) => runs[a] >= 1]_vars


\* C17: a publish call calls the actions of one queue in the order in which
\* they were enqueued (actions are numbered in that order), also when some were
\* enqueued during the flush before and others after it
C17_Fifo ==
    \A i \in Passes :
        \A j, k \in DOMAIN stack[i].ran :
            (j < k /\ sched[stack[i].ran[j]].q = sched[stack[i].ran[k]].q)
                => stack[i].ran[j] < stack[i].ran[k]


\* the actions that were enqueued into queue q, while nothing was being flushed,
\* before the publish call of frame f was entered
Pending(q, f) == {a \in EnqueuedIn(q, {"none"}) : a < f.born}

\* C18: a publish of a type without handler list calls no handler and changes
\* neither m_subscriptions (no list is created) nor m_subsCount, and it still
\* flushes: past its urgent flush the pending urgent actions have been called,
\* and at its return the pending event actions of its type too
C18_PublishWithoutList ==
    [][(stack # <<>> /\ Top.kind = "publish" /\ Top.tid \notin DOMAIN m_subscriptions) =>
          /\ UNCHANGED <<m_subscriptions, m_subsCount>>
          /\ ~IsInvocation
          /\ Top.log = <<>>
          /\ PastUrgent(Len(stack)) => \A a \in Pending(Urgent, Top) : runs[a] >= 1
          /\ IsPublishReturn => \A a \in Pending(Top.tid, Top) : runs[a] >= 1]_vars

\* C18 happens: a publish of a type without list has called an urgent action and
\* is calling an event action of its type
C18_Witness ==
    \E i \in Passes :
        /\ stack[i].tid \notin DOMAIN m_subscriptions
        /\ stack[i].pc = "eventLoop"
        /\ stack[i].log = <<>>
        /\ \E a, b \in Range(stack[i].ran) :
              sched[a].q = Urgent /\ sched[b].q = stack[i].tid

\* a loop of dispatch over the handler list of type t is in progress in stk
InDispatch(stk, t) ==
    \E i \in DOMAIN stk : stk[i].kind = "publish" /\ stk[i].pc = "loop" /\ stk[i].tid = t

\* C19: a step during which a loop of dispatch over a handler list is and stays
\* in progress erases no element of the m_order of that list: a removal writes a
\* tombstone in place, and cleanUp runs when the outermost dispatch has finished
C19_NoEraseInDispatch ==
    [][\A t \in Types :
          (/\ t \in DOMAIN m_subscriptions
           /\ InDispatch(stack, t)
           /\ InDispatch(stack', t))
              => Len(m_subscriptions'[t].m_order) >= Len(m_subscriptions[t].m_order)]_vars


\* C20: whenever no loop of dispatch over a handler list is in progress, the
\* m_order of the list holds no tombstone and its m_needsCleanUp is false: the
\* tombstones written during a dispatch are dropped when the dispatch returns
C20_NoTombstoneAtRest ==
    \A t \in Types :
        (t \in DOMAIN m_subscriptions /\ ~InDispatch(stack, t)) =>
            /\ Null \notin Range(m_subscriptions[t].m_order)
            /\ ~m_subscriptions[t].m_needsCleanUp

\* C20 happens: the only publish call on the stack has left its loop of dispatch
\* after one handler call, and the receiver it called has lost its slot, which was
\* written over with a tombstone by the one call of its handler body; the list
\* still holds the slot of another receiver
C20_Witness ==
    /\ Len(stack) = 1
    /\ stack[1].kind = "publish"
    /\ stack[1].pc = "event"
    /\ stack[1].dirty
    /\ Len(stack[1].log) = 1
    /\ stack[1].log[1] \notin Slots(m_subscriptions, stack[1].tid)
    /\ Slots(m_subscriptions, stack[1].tid) # {}
    /\ ~InDispatch(stack, stack[1].tid)


(* ------------------- checked: the handled flag ------------------------- *)
\* the step sets the handled flag of the event of the publish call of frame i
BecomesHandled(i) == ~stack[i].handled /\ i <= Len(stack') /\ stack'[i].handled

\* the handled flag of a publish call is set only by a handler that call has
\* called itself: a handler of a nested or of an enclosing publish call cannot
HandledByOwnHandler ==
    \A i \in Passes :
        BecomesHandled(i) => (i = Len(stack) - 1 /\ Top.kind = "handler")

\* every publish call starts with the flag unset, whatever was stopped before, and
\* a pass during which no subscription changed and whose own flag stays unset goes
\* on after a nested publish call was stopped and ends having called everybody
FreshAndUnstopped ==
    \A i \in Passes :
        /\ stack[i].pc \in {"urgent", "urgentLoop", "lookup"} => ~stack[i].handled
        /\ (i \in CleanPasses /\ ~stack[i].handled) =>
              /\ IsPrefix(stack[i].log, subscribedOrder[stack[i].tid])
              /\ stack[i].pc = "loop" => ~stack[i].wild /\ ~stack[i].dangling
              /\ Dispatched(i) => stack[i].log = subscribedOrder[stack[i].tid]

\* C21: handled is a flag of one publish call: a handler that sets it on the
\* event of a nested publish call stops the nested dispatch only, the enclosing
\* dispatch goes on with its remaining handlers; and a later publish call starts
\* with the flag unset and is delivered to all subscribers again
C21_HandledPerPublish == [][HandledByOwnHandler]_vars /\ []FreshAndUnstopped

\* C21 happens: a publish call nested in the call of the first handler of a pass
\* was stopped, and the pass, its own flag unset, is calling its third handler
C21_Witness ==
    \E i \in CleanPasses :
        /\ stack[i].pc = "loop" /\ ~stack[i].handled
        /\ stack[i].stopped = 1
        /\ stack[i].log = <<1, 2, 3>>
        /\ Len(stack) = i + 1


(* ------------------ checked: the handler list -------------------------- *)
\* C22: in every handler list the receivers keyed in m_handlers are the entries
\* of m_order that are no tombstone, and no receiver is twice in m_order; so the
\* m_handlers[handler] of dispatch finds a stored handler: the process dies of a
\* wild iterator only, never of a call through a handler that is not there
C22_HandlersMatchOrder ==
    /\ \A t \in DOMAIN m_subscriptions :
          LET l == m_subscriptions[t] IN
          /\ Range(l.m_order) \ {Null} = DOMAIN l.m_handlers
          /\ \A r \in Receivers : Occurrences(l.m_order, r) <= 1
    /\ crashed => \E i \in Passes : stack[i].wild

\* C22 happens: a loop of dispatch has passed the tombstone of a removed receiver
\* and is calling the handler of the receiver behind it
C22_Witness ==
    \E i \in Passes :
        LET l == m_subscriptions[stack[i].tid] IN
        /\ stack[i].pc = "loop" /\ ~stack[i].wild
        /\ stack[i].it >= 2 /\ stack[i].it <= Len(l.m_order)
        /\ l.m_order[stack[i].it - 1] = Null
        /\ i < Len(stack)
        /\ stack[i + 1].kind = "handler"
        /\ stack[i + 1].r = l.m_order[stack[i].it]


\* C23: one dispatch pass (the calls of nested publish calls not counted) calls
\* the handler of a receiver once at most, whatever the handlers do, a receiver
\* that is unsubscribed from T and subscribed to T again during the pass included
C23_OncePerPass ==
    \A i \in Passes : \A r \in Receivers : Occurrences(stack[i].log, r) <= 1


\* s is t with some of its elements left out
RECURSIVE IsSubseq(_, _)
IsSubseq(s, t) ==
    IF s = <<>> THEN TRUE
    ELSE IF t = <<>> THEN FALSE
    ELSE IF Head(s) = Head(t) THEN IsSubseq(Tail(s), Tail(t))
    ELSE IsSubseq(s, Tail(t))

\* the receivers of the nodes the loop of the pass of frame i has come to: those
\* before its iterator, and the one under it once its handler has been called
Visited(i) ==
    LET order == m_subscriptions[stack[i].tid].m_order
        called == i < Len(stack) /\ stack[i + 1].kind = "handler"
        last == IF called THEN stack[i].it ELSE stack[i].it - 1
        upto == IF last > Len(order) THEN Len(order) ELSE last
    IN SelectSeq(SubSeq(order, 1, upto), LAMBDA x : x # Null)

\* subscribe of a receiver without slot for T, called by a handler during a
\* dispatch of T, appends the receiver to m_order and moves no iterator
AppendsBehindLoops ==
    \A r \in Receivers, t \in Types, c \in Callables :
        (/\ Subscribe(r, t, c)
         /\ stack # <<>> /\ Top.kind = "handler"
         /\ InDispatch(stack, t)
         /\ r \notin Slots(m_subscriptions, t))
            => /\ m_subscriptions'[t].m_order = Append(m_subscriptions[t].m_order, r)
               /\ \A i \in Passes :
                     stack'[i].it = stack[i].it /\ stack'[i].pc = stack[i].pc

\* a loop of dispatch with a valid iterator calls the handlers in the order of
\* m_order, and when it ends without the event being handled every receiver that
\* holds a slot has been called
CallsInOrderToTheEnd ==
    \A i \in Passes :
        /\ (stack[i].pc = "loop" /\ ~stack[i].wild /\ ~stack[i].dangling)
              => IsSubseq(Visited(i), stack[i].log)
        /\ (Dispatched(i) /\ ~stack[i].handled /\ ~stack[i].wild)
              => Slots(m_subscriptions, stack[i].tid) \subseteq Range(stack[i].log)

\* C24: a receiver that a handler subscribes to T during a dispatch of T goes to
\* the end of m_order and, unless a handler sets handled, the same pass calls
\* it, after the receivers that were subscribed before it
C24_SubscribedDuringDispatch == [][AppendsBehindLoops]_vars /\ []CallsInOrderToTheEnd

\* C24 happens: the handler of receiver 1, the only subscriber, has subscribed
\* receiver 2 in its one call (the list has no tombstone and needs no cleanUp, so
\* the call was no removal), and the same pass is calling receiver 2
C24_Witness ==
    /\ Len(stack) = 2
    /\ stack[1].kind = "publish" /\ stack[1].pc = "loop"
    /\ stack[1].dirty /\ ~stack[1].wild
    /\ stack[1].log = <<1, 2>>
    /\ stack[2].kind = "handler" /\ stack[2].r = 2 /\ stack[2].calls = 0
    /\ m_subscriptions[stack[1].tid].m_order = <<1, 2>>
    /\ ~m_subscriptions[stack[1].tid].m_needsCleanUp


(* ------------- checked: actions scheduled by handlers ------------------ *)
\* a publish call returns with every event action called that its handlers
\* scheduled for its event type
OwedEventActionsRun ==
    IsPublishReturn =>
        \A a \in Top.owed : sched[a].q = Top.tid => runs[a] >= 1

\* an urgent action scheduled by a handler of a pass has been called when a
\* publish call nested in the pass and entered after it is past its urgent flush
OwedUrgentActionsRun ==
    \A i, j \in Passes :
        i < j => \A a \in stack[i].owed :
                    (sched[a].q = Urgent /\ a < stack[j].born /\ PastUrgent(j))
                        => runs[a] >= 1

\* C25: an event action that a handler, called by the dispatch of a publish of
\* T, schedules for T is called at the end of that same publish call, after the
\* dispatch; an urgent action scheduled by a handler is called at the start of
\* the next publish call, a nested one included
C25_HandlerScheduled == [][OwedEventActionsRun]_vars /\ []OwedUrgentActionsRun


(* ------------------ checked: the width of the counters ----------------- *)
\* no entry of m_subsCount holds 0
NoZeroEntry == \A r \in DOMAIN m_subsCount : m_subsCount[r] # 0

\* no step decrements a counter that is 0: in uint32_t that gives 4294967295, which
\* is -1 as a signed bit pattern
NoWrapBelowZero ==
    \A r \in (DOMAIN m_subsCount) \cap (DOMAIN m_subsCount') :
        ~(m_subsCount[r] = 0 /\ m_subsCount'[r] = -1)

\* C26: every entry of m_subsCount holds 1 at least, as an entry is erased when
\* its counter gets to 0; so no sequence of subscribe, unsubscribe and
\* unsubscribeAll calls decrements a uint32_t counter below 0
C26_CounterAtLeastOne == []NoZeroEntry /\ [][NoWrapBelowZero]_vars

====
